---- MODULE Spec2Model ----
(***************************************************************************)
(* A model of fabric/connection.py: the making of a Connection (__init__,  *)
(* derive_shorthand), its lifecycle (open, open_gateway, close and the     *)
(* `opens` decorator), the operations behind the decorator (run, sftp,     *)
(* create_session) and the two scoped forwarding operations forward_local  *)
(* and forward_remote.                                                     *)
(*                                                                         *)
(* The foreground thread is a call stack of frames, one step per statement *)
(* that touches the client, the transport or another Connection.  What     *)
(* paramiko does (a connect that succeeds or raises, a transport that      *)
(* drops) is the environment.                                              *)
(***************************************************************************)
EXTENDS Integers, Sequences, FiniteSets, TLC

VARIABLES
    gateway,        \* Connection.gateway, per session (set by __init__)
    forward_agent,  \* Connection.forward_agent, per session
    transport,      \* Connection.transport: 0 is None, k the k-th handle
    active,         \* transport.active of the handle held
    connects,       \* number of client.connect invocations, per session
    closed,         \* number of client.close invocations, per session
    dropped,        \* number of times the transport dropped by itself
    agent_handler,  \* Connection._agent_handler: 0 is None
    agent_closed,   \* agent handlers on which close() was called
    stack,          \* the foreground thread's call stack
    events,         \* transport events of the current top-level call
    outcome,        \* "idle", "running", "returned" or "raised"
    call,           \* the current (or last) top-level call
    disturbed,      \* a transport dropped since the call began
    agent_made,     \* AgentRequestHandler objects created, per session
    sftp,           \* Connection._sftp: 0 is None, k the k-th handle
    sftp_opens,     \* number of client.open_sftp invocations, per session
    sftp_returns,   \* the handles sftp() calls have returned, per session
    \* `with cxn:`, one Connection used as a context manager
    with_pc,        \* "off", "before", "in", "exit" or "after"
    with_exc,       \* the exception the block raised, if any
    with_raised,    \* what the with statement let out
    \* __init__, one construction
    init_pc,        \* "off", "call", "done" or "raised"
    init_args,      \* the arguments and the configuration __init__ reads
    init_self,      \* the attributes __init__ has set
    \* forward_remote, one scope
    fr_pc,          \* the foreground thread's position in forward_remote
    fr_args,        \* the arguments of the call
    fr_local_port,  \* the local variable local_port
    fr_tunnels,     \* the shared list `tunnels` (of tunnel ids)
    fr_i,           \* how many items the teardown loop's iterator has passed
    fr_tunnel,      \* every Tunnel the callback created, by id
    fr_chan,        \* every inbound Channel handed to the callback, by id
    fr_requests,    \* (address, port) of each request_port_forward call
    fr_cancels,     \* (address, port) of each cancel_port_forward call
    fr_registered,  \* "no", "ok" (the request returned) or "failed"
    fr_handler,     \* the transport still routes connections to callback
    fr_exc,         \* the exception pending in the foreground thread
    fr_raised,      \* what forward_remote let out to its caller
    cb_pc,          \* the transport thread's position in callback
    cb_n,           \* callback invocations so far (the current one's id)
    \* forward_local, one scope
    fl_pc,          \* the foreground thread's position in forward_local
    fl_args,        \* the arguments of the call
    fl_remote_port, \* the local variable remote_port
    fl_finished,    \* the Event `finished` is set
    fl_joined,      \* manager.join() has returned
    fl_exc,         \* the exception the caller's block raised, if any
    fl_raised,      \* what forward_local let out to its caller
    mg_pc,          \* the TunnelManager thread's position
    mg_own,         \* the failure of the manager's own accept loop, if any
    mg_n,           \* connections accepted so far
    mg_i,           \* tunnels the manager has stopped and joined
    mg_tunnel,      \* the manager's Tunnels, by id
    mg_slot         \* what manager.exception() returns

connVars == <<gateway, forward_agent, transport, active, connects, closed,
              dropped, agent_handler, agent_closed, stack, events, outcome,
              call, disturbed, agent_made, sftp, sftp_opens, sftp_returns>>

\* The part of the Connection state only sftp() and create_session() write
sessVars == <<agent_made, sftp, sftp_opens, sftp_returns>>

initVars == <<init_pc, init_args, init_self>>

withVars == <<with_pc, with_exc, with_raised>>

frVars == <<fr_pc, fr_args, fr_local_port, fr_tunnels, fr_i, fr_tunnel,
            fr_chan, fr_requests, fr_cancels, fr_registered, fr_handler,
            fr_exc, fr_raised, cb_pc, cb_n>>

flVars == <<fl_pc, fl_args, fl_remote_port, fl_finished, fl_joined, fl_exc,
            fl_raised, mg_pc, mg_own, mg_n, mg_i, mg_tunnel, mg_slot>>

vars == <<connVars, withVars, initVars, frVars, flVars>>

----------------------------------------------------------------------------
(* Bounds *)

\* client.connect invocations, over all sessions, after which no further
\* top-level call begins
MaxConnects == 3

\* inbound connections (callback invocations) per forward_remote scope
MaxCallbacks == 2

\* local connections accepted per forward_local scope
MaxAccepts == 2

\* AgentRequestHandler objects per session, after which no further
\* create_session call begins
MaxChannels == 2

----------------------------------------------------------------------------
(* Sessions and their connection parameters *)

Sessions == {"A", "B", "C"}

\* self.host
Host(s) == CASE s = "A" -> "hostA" [] s = "B" -> "hostB" [] OTHER -> "hostC"

\* self.user
User(s) == CASE s = "A" -> "alice" [] s = "B" -> "bob" [] OTHER -> "carol"

\* self.port: an int, or (given as the port kwarg) a string of digits
IntPort(n) == [t |-> "int", v |-> n, d |-> <<>>]
StrPort(ds) == [t |-> "str", v |-> 0, d |-> ds]
Port(s) == CASE s = "A" -> IntPort(22)
             [] s = "B" -> StrPort(<<2, 2, 2, 2>>)
             [] OTHER -> IntPort(2200)

\* int(x) for an int or a string of decimal digits
RECURSIVE DigitsValue(_)
DigitsValue(ds) ==
    IF ds = <<>> THEN 0
    ELSE 10 * DigitsValue(SubSeq(ds, 1, Len(ds) - 1)) + ds[Len(ds)]

int(p) == IF p.t = "int" THEN p.v ELSE DigitsValue(p.d)

\* The values the gateway attribute takes
NoGateway == [kind |-> "None", cxn |-> "", command |-> <<>>]
FalseGateway == [kind |-> "False", cxn |-> "", command |-> <<>>]
CommandGateway(c) == [kind |-> "str", cxn |-> "", command |-> c]
ConnectionGateway(g) == [kind |-> "Connection", cxn |-> g, command |-> <<>>]

\* "nc %h %p", as tokens
NcCommand == <<"nc", " ", "%h", " ", "%p">>

\* The gateway configurations explored.  A gateway Connection exists before
\* the Connection that names it, so chains are acyclic: C before B before A.
GatewayConfigs ==
    { [A |-> a, B |-> b, C |-> NoGateway] :
        a \in {NoGateway, FalseGateway, CommandGateway(NcCommand),
               ConnectionGateway("B"), ConnectionGateway("C")},
        b \in {NoGateway, CommandGateway(NcCommand), ConnectionGateway("C")} }

\* `if self.gateway:` (a vanilla truth test)
Truthy(g) ==
    CASE g.kind = "None" -> FALSE
      [] g.kind = "False" -> FALSE
      [] g.kind = "str" -> g.command # <<>>
      [] OTHER -> TRUE

\* isinstance(self.gateway, six.string_types)
IsString(g) == g.kind = "str"

----------------------------------------------------------------------------
(* Socket-like objects and transport events *)

NoSock == [kind |-> "none", id |-> 0, cmd |-> <<>>]
ChannelSock(n) == [kind |-> "channel", id |-> n, cmd |-> <<>>]
ProxySock(c) == [kind |-> "proxy", id |-> 0, cmd |-> c]

NoAddr == <<"-", 0>>

ConnectEvent(s, sock) ==
    [ev |-> "connect", on |-> s, kind |-> "-", sock |-> sock,
     dest_addr |-> NoAddr, src_addr |-> NoAddr,
     hostname |-> Host(s), username |-> User(s), port |-> Port(s)]

ChannelEvent(g, kind, dest, src, n) ==
    [ev |-> "open_channel", on |-> g, kind |-> kind, sock |-> ChannelSock(n),
     dest_addr |-> dest, src_addr |-> src,
     hostname |-> "-", username |-> "-", port |-> IntPort(0)]

ProxyEvent(s, c) ==
    [ev |-> "ProxyCommand", on |-> s, kind |-> "-", sock |-> ProxySock(c),
     dest_addr |-> NoAddr, src_addr |-> NoAddr,
     hostname |-> "-", username |-> "-", port |-> IntPort(0)]

RunEvent(s) ==
    [ev |-> "run", on |-> s, kind |-> "-", sock |-> NoSock,
     dest_addr |-> NoAddr, src_addr |-> NoAddr,
     hostname |-> "-", username |-> "-", port |-> IntPort(0)]

\* The channels opened so far in this call number the next one
ChannelsOpened == Cardinality({i \in 1..Len(events) : events[i].ev = "open_channel"})

----------------------------------------------------------------------------
(* The call stack *)

Frame(fn, s, pc) == [fn |-> fn, self |-> s, pc |-> pc, sock |-> NoSock]

Top == stack[Len(stack)]

Rest == SubSeq(stack, 1, Len(stack) - 1)

TopIs(fn, pc) == stack # <<>> /\ Top.fn = fn /\ Top.pc = pc

SetTop(f) == [stack EXCEPT ![Len(stack)] = f]

\* Return v from the top frame: open() keeps what open_gateway() returned as
\* kwargs['sock']; every other caller drops the value.
ReturnTo(v) ==
    IF Rest = <<>> THEN Rest
    ELSE IF Top.fn = "open_gateway"
         THEN [Rest EXCEPT ![Len(Rest)].sock = v]
         ELSE Rest

Returns(v) ==
    /\ stack' = ReturnTo(v)
    /\ outcome' = IF Rest = <<>> THEN "returned" ELSE outcome

\* No frame of this module catches: an exception unwinds the whole stack.
Raises ==
    /\ stack' = <<>>
    /\ outcome' = "raised"

\* No exception in flight
NoException == "None"

----------------------------------------------------------------------------
(* Connection *)

ConnInit ==
    /\ gateway \in GatewayConfigs
    /\ forward_agent = [s \in Sessions |-> FALSE]
    /\ transport = [s \in Sessions |-> 0]
    /\ active = [s \in Sessions |-> FALSE]
    /\ connects = [s \in Sessions |-> 0]
    /\ closed = [s \in Sessions |-> 0]
    /\ dropped = [s \in Sessions |-> 0]
    /\ agent_handler = [s \in Sessions |-> 0]
    /\ agent_closed = [s \in Sessions |-> {}]
    /\ agent_made = [s \in Sessions |-> 0]
    /\ sftp = [s \in Sessions |-> 0]
    /\ sftp_opens = [s \in Sessions |-> 0]
    /\ sftp_returns = [s \in Sessions |-> {}]
    /\ stack = <<>>
    /\ events = <<>>
    /\ outcome = "idle"
    /\ call = [op |-> "-", self |-> "-", fresh |-> TRUE, connected |-> FALSE]
    /\ disturbed = FALSE

\* Mutants of is_connected: the active flag read the wrong way round, and a
\* property that never reports a connection
is_connectedInverted(s) == IF transport[s] # 0 THEN ~active[s] ELSE FALSE

is_connectedNever(s) == FALSE

\* Mutant of is_connected: any transport handle counts as a connection
is_connectedHasTransport(s) == transport[s] # 0

\* The is_connected property
is_connected(s) == IF transport[s] # 0 THEN active[s] ELSE FALSE

\* Mutant of GatewayDestAddr: the channel addressed at the gateway itself
GatewayDestAddrOfGateway(s) == <<Host(gateway[s].cxn), int(Port(gateway[s].cxn))>>

\* dest_addr of the direct-tcpip channel open_gateway asks for
GatewayDestAddr(s) == <<Host(s), int(Port(s))>>

\* src_addr of that channel: 'empty but not None'
GatewaySrcAddr == <<"", 0>>

\* Mutant of GatewayTransport: the session takes itself for its gateway
GatewayTransportSelf(s) == s

\* self.gateway, a Connection: the session open_gateway opens, and whose
\* transport it asks for the channel
GatewayTransport(s) == gateway[s].cxn

\* The foreground thread begins a top-level call of s.<op>()
Begin(s, op, first) ==
    /\ stack = <<>>
    /\ connects["A"] + connects["B"] + connects["C"] < MaxConnects
    /\ stack' = <<Frame(op, s, first)>>
    /\ events' = <<>>
    /\ outcome' = "running"
    /\ call' = [op |-> op, self |-> s,
                fresh |-> \A t \in Sessions : transport[t] = 0,
                connected |-> (transport[s] # 0 /\ active[s])]
    /\ disturbed' = FALSE
    /\ UNCHANGED sessVars
    /\ UNCHANGED <<gateway, forward_agent, transport, active, connects,
                   closed, dropped, agent_handler, agent_closed>>

CallOpen(s) == Begin(s, "open", "check")

CallRun(s) == Begin(s, "run", "opens")

\* Mutant of Opens: the method is entered without self.open()
OpensWithoutOpen ==
    /\ stack # <<>> /\ Top.pc = "opens"
    /\ stack' = SetTop([Top EXCEPT !.pc = "body"])
    /\ UNCHANGED sessVars
    /\ UNCHANGED <<gateway, forward_agent, transport, active, connects,
                   closed, dropped, agent_handler, agent_closed, events,
                   outcome, call, disturbed>>

\* @opens: self.open(), then the method
Opens ==
    /\ stack # <<>> /\ Top.pc = "opens"
    /\ stack' = Append(SetTop([Top EXCEPT !.pc = "body"]),
                       Frame("open", Top.self, "check"))
    /\ UNCHANGED sessVars
    /\ UNCHANGED <<gateway, forward_agent, transport, active, connects,
                   closed, dropped, agent_handler, agent_closed, events,
                   outcome, call, disturbed>>

\* run(): Remote(context=self).run(command)
RunBody ==
    /\ TopIs("run", "body")
    /\ events' = Append(events, RunEvent(Top.self))
    /\ Returns(NoSock)
    /\ UNCHANGED sessVars
    /\ UNCHANGED <<gateway, forward_agent, transport, active, connects,
                   closed, dropped, agent_handler, agent_closed, call,
                   disturbed>>

\* open(), up to the connect: `if not self.is_connected`, `if self.gateway`
OpenCheck ==
    /\ TopIs("open", "check")
    /\ LET s == Top.self IN
         IF is_connected(s)
         THEN Returns(NoSock)
         ELSE /\ outcome' = outcome
              /\ IF Truthy(gateway[s])
                 THEN stack' = Append(SetTop([Top EXCEPT !.pc = "connect"]),
                                      Frame("open_gateway", s, "start"))
                 ELSE stack' = SetTop([Top EXCEPT !.pc = "connect"])
    /\ UNCHANGED sessVars
    /\ UNCHANGED <<gateway, forward_agent, transport, active, connects,
                   closed, dropped, agent_handler, agent_closed, events,
                   call, disturbed>>

\* %h and %p as the dummy SSHConfig expands them: the config handed to the
\* parser holds the host and the command alone, so %p is ssh's default port.
ExpandToken(tok, s) ==
    CASE tok = "%h" -> Host(s)
      [] tok = "%p" -> "22"
      [] OTHER -> tok

ProxyCommandString(s) ==
    [i \in 1..Len(gateway[s].command) |-> ExpandToken(gateway[s].command[i], s)]

\* open_gateway(): the ProxyCommand branch, or self.gateway.open()
OpenGatewayStart ==
    /\ TopIs("open_gateway", "start")
    /\ LET s == Top.self IN
         IF IsString(gateway[s])
         THEN /\ events' = Append(events, ProxyEvent(s, ProxyCommandString(s)))
              /\ Returns(ProxySock(ProxyCommandString(s)))
         ELSE /\ stack' = Append(SetTop([Top EXCEPT !.pc = "channel"]),
                                 Frame("open", GatewayTransport(s), "check"))
              /\ UNCHANGED <<events, outcome>>
    /\ UNCHANGED sessVars
    /\ UNCHANGED <<gateway, forward_agent, transport, active, connects,
                   closed, dropped, agent_handler, agent_closed, call,
                   disturbed>>

\* open_gateway(): self.gateway.transport.open_channel(...).  A transport
\* that is no longer active refuses the channel.
OpenGatewayChannel ==
    /\ TopIs("open_gateway", "channel")
    /\ LET s == Top.self
           g == GatewayTransport(s)
           n == ChannelsOpened + 1
       IN  IF transport[g] # 0 /\ active[g]
           THEN /\ events' = Append(events,
                        ChannelEvent(g, "direct-tcpip", GatewayDestAddr(s),
                                     GatewaySrcAddr, n))
                /\ Returns(ChannelSock(n))
           ELSE /\ Raises
                /\ UNCHANGED events
    /\ UNCHANGED sessVars
    /\ UNCHANGED <<gateway, forward_agent, transport, active, connects,
                   closed, dropped, agent_handler, agent_closed, call,
                   disturbed>>

\* open(): self.client.connect(**kwargs) returns, and
\* self.transport = self.client.get_transport()
ConnectOk ==
    /\ TopIs("open", "connect")
    /\ LET s == Top.self IN
         /\ events' = Append(events, ConnectEvent(s, Top.sock))
         /\ connects' = [connects EXCEPT ![s] = @ + 1]
         /\ transport' = [transport EXCEPT ![s] = @ + 1]
         /\ active' = [active EXCEPT ![s] = TRUE]
    /\ Returns(NoSock)
    /\ UNCHANGED sessVars
    /\ UNCHANGED <<gateway, forward_agent, closed, dropped, agent_handler,
                   agent_closed, call, disturbed>>

\* Mutant of ConnectFails: the failed connect is tried again
ConnectFailsRetries ==
    /\ TopIs("open", "connect")
    /\ LET s == Top.self IN
         /\ events' = Append(events, ConnectEvent(s, Top.sock))
         /\ connects' = [connects EXCEPT ![s] = @ + 1]
    /\ UNCHANGED sessVars
    /\ UNCHANGED <<gateway, forward_agent, transport, active, closed,
                   dropped, agent_handler, agent_closed, call, disturbed,
                   stack, outcome>>

\* open(): self.client.connect(**kwargs) raises; self.transport is not set
ConnectFails ==
    /\ TopIs("open", "connect")
    /\ LET s == Top.self IN
         /\ events' = Append(events, ConnectEvent(s, Top.sock))
         /\ connects' = [connects EXCEPT ![s] = @ + 1]
    /\ Raises
    /\ UNCHANGED sessVars
    /\ UNCHANGED <<gateway, forward_agent, transport, active, closed,
                   dropped, agent_handler, agent_closed, call, disturbed>>

\* close()
Close(s) ==
    /\ stack = <<>>
    /\ events' = <<>>
    /\ outcome' = "returned"
    /\ call' = [op |-> "close", self |-> s,
                fresh |-> \A t \in Sessions : transport[t] = 0,
                connected |-> (transport[s] # 0 /\ active[s])]
    /\ disturbed' = FALSE
    /\ IF is_connected(s)
       THEN /\ active' = [active EXCEPT ![s] = FALSE]
            /\ closed' = [closed EXCEPT ![s] = @ + 1]
            /\ IF forward_agent[s] /\ agent_handler[s] # 0
               THEN agent_closed' =
                        [agent_closed EXCEPT ![s] = @ \cup {agent_handler[s]}]
               ELSE UNCHANGED agent_closed
       ELSE UNCHANGED <<active, closed, agent_closed>>
    /\ UNCHANGED sessVars
    /\ UNCHANGED <<gateway, forward_agent, transport, connects, dropped,
                   agent_handler, stack>>

\* The environment: an active transport drops
Drop(s) ==
    /\ transport[s] # 0 /\ active[s]
    /\ active' = [active EXCEPT ![s] = FALSE]
    /\ dropped' = [dropped EXCEPT ![s] = @ + 1]
    /\ disturbed' = TRUE
    /\ UNCHANGED sessVars
    /\ UNCHANGED <<gateway, forward_agent, transport, connects, closed,
                   agent_handler, agent_closed, stack, events, outcome, call>>

----------------------------------------------------------------------------
(* The operations behind @opens: sftp, create_session, forward_local and *)
(* forward_remote, up to their first use of the client or the transport  *)

SftpEvent(s) ==
    [ev |-> "open_sftp", on |-> s, kind |-> "-", sock |-> NoSock,
     dest_addr |-> NoAddr, src_addr |-> NoAddr,
     hostname |-> "-", username |-> "-", port |-> IntPort(0)]

\* forward_local hands self.transport to its TunnelManager; forward_remote
\* calls self.transport.request_port_forward
ForwardEvent(s, what) ==
    [ev |-> what, on |-> s, kind |-> "-", sock |-> NoSock,
     dest_addr |-> NoAddr, src_addr |-> NoAddr,
     hostname |-> "-", username |-> "-", port |-> IntPort(0)]

CallSftp(s) == Begin(s, "sftp", "opens")

CallCreateSession(s) ==
    /\ agent_made[s] < MaxChannels
    /\ Begin(s, "create_session", "opens")

CallForwardLocal(s) == Begin(s, "forward_local", "opens")

CallForwardRemote(s) == Begin(s, "forward_remote", "opens")

\* Mutant of SftpMemo: the memo is never consulted
SftpMemoIgnored(s) == FALSE

\* sftp(): `if self._sftp is None` fails, the memoized handle is returned
SftpMemo(s) == sftp[s] # 0

\* sftp(): self._sftp = self.client.open_sftp() unless memoized; return
\* self._sftp.  A client whose transport is no longer active raises, and
\* the attribute is not assigned.
SftpBody ==
    /\ TopIs("sftp", "body")
    /\ LET s == Top.self
           h == sftp_opens[s] + 1
       IN  IF SftpMemo(s)
           THEN /\ sftp_returns' = [sftp_returns EXCEPT ![s] = @ \cup {sftp[s]}]
                /\ Returns(NoSock)
                /\ UNCHANGED <<sftp, sftp_opens, events>>
           ELSE /\ sftp_opens' = [sftp_opens EXCEPT ![s] = h]
                /\ events' = Append(events, SftpEvent(s))
                /\ IF transport[s] # 0 /\ active[s]
                   THEN /\ sftp' = [sftp EXCEPT ![s] = h]
                        /\ sftp_returns' = [sftp_returns EXCEPT ![s] = @ \cup {h}]
                        /\ Returns(NoSock)
                   ELSE /\ Raises
                        /\ UNCHANGED <<sftp, sftp_returns>>
    /\ UNCHANGED <<gateway, forward_agent, transport, active, connects,
                   closed, dropped, agent_handler, agent_closed, agent_made,
                   call, disturbed>>

\* create_session(): channel = self.transport.open_session(), and with
\* forward_agent, self._agent_handler = AgentRequestHandler(channel)
CreateSessionBody ==
    /\ TopIs("create_session", "body")
    /\ LET s == Top.self
           n == ChannelsOpened + 1
       IN  IF transport[s] # 0 /\ active[s]
           THEN /\ events' = Append(events,
                        ChannelEvent(s, "session", NoAddr, NoAddr, n))
                /\ IF forward_agent[s]
                   THEN /\ agent_made' = [agent_made EXCEPT ![s] = @ + 1]
                        /\ agent_handler' =
                              [agent_handler EXCEPT ![s] = agent_made[s] + 1]
                   ELSE UNCHANGED <<agent_made, agent_handler>>
                /\ Returns(ChannelSock(n))
           ELSE /\ Raises
                /\ UNCHANGED <<events, agent_made, agent_handler>>
    /\ UNCHANGED <<gateway, forward_agent, transport, active, connects,
                   closed, dropped, agent_closed, sftp, sftp_opens,
                   sftp_returns, call, disturbed>>

\* forward_local(): the generator is created by the decorated call; its
\* body begins with TunnelManager(..., transport=self.transport, ...)
ForwardLocalBody ==
    /\ TopIs("forward_local", "body")
    /\ events' = Append(events, ForwardEvent(Top.self, "TunnelManager"))
    /\ Returns(NoSock)
    /\ UNCHANGED sessVars
    /\ UNCHANGED <<gateway, forward_agent, transport, active, connects,
                   closed, dropped, agent_handler, agent_closed, call,
                   disturbed>>

\* forward_remote(): its body begins with
\* self.transport.request_port_forward(...)
ForwardRemoteBody ==
    /\ TopIs("forward_remote", "body")
    /\ events' = Append(events, ForwardEvent(Top.self, "request_port_forward"))
    /\ Returns(NoSock)
    /\ UNCHANGED sessVars
    /\ UNCHANGED <<gateway, forward_agent, transport, active, connects,
                   closed, dropped, agent_handler, agent_closed, call,
                   disturbed>>

\* ProxyJump chains of depth 0, 1 and 2: C before B before A
ChainConfigs ==
    { [A |-> a, B |-> b, C |-> NoGateway] :
        a \in {NoGateway, ConnectionGateway("B"), ConnectionGateway("C")},
        b \in {NoGateway, ConnectionGateway("C")} }

ChainInit ==
    /\ gateway \in ChainConfigs
    /\ forward_agent = [s \in Sessions |-> FALSE]
    /\ transport = [s \in Sessions |-> 0]
    /\ active = [s \in Sessions |-> FALSE]
    /\ connects = [s \in Sessions |-> 0]
    /\ closed = [s \in Sessions |-> 0]
    /\ dropped = [s \in Sessions |-> 0]
    /\ agent_handler = [s \in Sessions |-> 0]
    /\ agent_closed = [s \in Sessions |-> {}]
    /\ agent_made = [s \in Sessions |-> 0]
    /\ sftp = [s \in Sessions |-> 0]
    /\ sftp_opens = [s \in Sessions |-> 0]
    /\ sftp_returns = [s \in Sessions |-> {}]
    /\ stack = <<>>
    /\ events = <<>>
    /\ outcome = "idle"
    /\ call = [op |-> "-", self |-> "-", fresh |-> TRUE, connected |-> FALSE]
    /\ disturbed = FALSE

\* A Connection made with forward_agent on or off and one of three
\* gateways; B, its gateway when it has one, has none itself
OpsInit ==
    /\ gateway \in { [A |-> a, B |-> NoGateway, C |-> NoGateway] :
                        a \in {NoGateway, CommandGateway(NcCommand),
                               ConnectionGateway("B")} }
    /\ forward_agent \in { [A |-> f, B |-> FALSE, C |-> FALSE] : f \in BOOLEAN }
    /\ transport = [s \in Sessions |-> 0]
    /\ active = [s \in Sessions |-> FALSE]
    /\ connects = [s \in Sessions |-> 0]
    /\ closed = [s \in Sessions |-> 0]
    /\ dropped = [s \in Sessions |-> 0]
    /\ agent_handler = [s \in Sessions |-> 0]
    /\ agent_closed = [s \in Sessions |-> {}]
    /\ agent_made = [s \in Sessions |-> 0]
    /\ sftp = [s \in Sessions |-> 0]
    /\ sftp_opens = [s \in Sessions |-> 0]
    /\ sftp_returns = [s \in Sessions |-> {}]
    /\ stack = <<>>
    /\ events = <<>>
    /\ outcome = "idle"
    /\ call = [op |-> "-", self |-> "-", fresh |-> TRUE, connected |-> FALSE]
    /\ disturbed = FALSE

----------------------------------------------------------------------------
(* The Connection as a context manager *)

\* Outside any with statement; also the value of these variables in the
\* specifications that are not about the context manager
WithIdle(pc) ==
    /\ with_pc = pc
    /\ with_exc = NoException
    /\ with_raised = NoException

\* __enter__: return self
WithEnter ==
    /\ with_pc \in {"before", "after"}
    /\ stack = <<>>
    /\ with_pc' = "in"
    /\ with_exc' = NoException
    /\ with_raised' = NoException

\* The with-block ends, normally or by raising: __exit__(*exc) is called
WithBlockExits(exc) ==
    /\ with_pc = "in"
    /\ stack = <<>>
    /\ with_exc' = exc
    /\ with_pc' = "exit"
    /\ UNCHANGED with_raised

\* Mutant of ExitSuppresses: __exit__ returns a true value
ExitSuppressesAll(exc) == TRUE

\* __exit__ has no return statement: it returns None, which suppresses
\* nothing
ExitSuppresses(exc) == FALSE

\* __exit__: self.close(), and the exception in flight goes on
WithExit(s) ==
    /\ with_pc = "exit"
    /\ Close(s)
    /\ with_raised' = IF ExitSuppresses(with_exc) THEN NoException ELSE with_exc
    /\ with_pc' = "after"
    /\ UNCHANGED with_exc

----------------------------------------------------------------------------
(* __init__ *)

\* Optional values: None, a string (a sequence of tokens) or an int
NoneText == [given |-> FALSE, text |-> <<>>]
Text(t) == [given |-> TRUE, text |-> t]
NoneNumber == [given |-> FALSE, n |-> 0]
Number(n) == [given |-> TRUE, n |-> n]

\* `x or default` for a string and for an int
TextOr(x, default) == IF x.given /\ x.text # <<>> THEN x.text ELSE default
IntOr(x, default) == IF x.given /\ x.n # 0 THEN x.n ELSE default

\* No __init__ is modelled
NewIdle(pc) ==
    /\ init_pc = pc
    /\ init_args = <<>>
    /\ init_self = <<>>

\* str.count(c)
Count(str, c) == Cardinality({i \in 1..Len(str) : str[i] = c})

\* str.rsplit(c, 1)
RSplit(str, c) ==
    IF Count(str, c) = 0 THEN <<str>>
    ELSE LET k == CHOOSE i \in 1..Len(str) :
                      str[i] = c /\ \A j \in (i + 1)..Len(str) : str[j] # c
         IN  <<SubSeq(str, 1, k - 1), SubSeq(str, k + 1, Len(str))>>

\* int(str) for a string of decimal digits
DigitChars == <<"0", "1", "2", "3", "4", "5", "6", "7", "8", "9">>

RECURSIVE ParseInt(_)
ParseInt(str) ==
    IF str = <<>> THEN 0
    ELSE 10 * ParseInt(SubSeq(str, 1, Len(str) - 1))
            + ((CHOOSE d \in 1..10 : DigitChars[d] = str[Len(str)]) - 1)

\* derive_shorthand(host_string)
derive_shorthand(host_string) ==
    LET user_hostport == RSplit(host_string, "@")
        hostport == user_hostport[Len(user_hostport)]
        popped == SubSeq(user_hostport, 1, Len(user_hostport) - 1)
        user == IF popped # <<>> /\ popped[1] # <<>>
                THEN Text(popped[1]) ELSE NoneText
    IN  IF Count(hostport, ":") > 1
        THEN [user |-> user, host |-> Text(hostport), port |-> NoneNumber]
        ELSE LET host_port == RSplit(hostport, ":")
                 host == IF host_port[1] # <<>>
                         THEN Text(host_port[1]) ELSE NoneText
                 rest == Tail(host_port)
                 port == IF rest # <<>> /\ rest[1] # <<>>
                         THEN Number(ParseInt(rest[1])) ELSE NoneNumber
             IN  [user |-> user, host |-> host, port |-> port]

\* The host strings explored: plain, with a user, with a port, with both,
\* with an empty user, with an empty port, and an IPv6 address
HostStrings ==
    { <<"hostA">>,
      <<"alice", "@", "hostA">>,
      <<"hostA", ":", "2", "2">>,
      <<"alice", "@", "hostA", ":", "2", "2">>,
      <<"@", "hostA">>,
      <<"hostA", ":">>,
      <<":", ":", "1">> }

\* self.config.user and self.config.port; the ssh_config explored has no
\* hostname, user or port entry
ConfigUser == <<"carol">>
ConfigPort == 2200

\* The arguments of __init__ and the configuration it reads.  The gateway
\* kwarg, config.gateway and the Connection that ProxyJump names are
\* Connections that exist already (B, C); connect_kwargs is not modelled.
InitCalls ==
    [ host : HostStrings,
      user : {NoneText, Text(<<"alice">>)},
      port : {NoneNumber, Number(22)},
      gateway : {NoGateway, FalseGateway, CommandGateway(NcCommand),
                 ConnectionGateway("B")},
      forward_agent : {"None", "True"},
      proxyjump : {NoneText, Text(<<"hostC">>)},
      proxycommand : {NoneText, Text(NcCommand)},
      forwardagent : {"absent", "yes", "no"},
      config_gateway : {NoGateway, ConnectionGateway("B")} ]

\* Connection(shorthand): the Connection a ProxyJump value makes
ConnectionTo(text) == IF text = <<"hostC">> THEN "C" ELSE "B"

\* Mutant of GatewayIsNone: any falsy gateway seeks the configuration
GatewayIsFalsy(g) == ~Truthy(g)

\* `if gateway is None`
GatewayIsNone(g) == g.kind = "None"

\* __init__: the gateway attribute
InitGateway(args) ==
    IF GatewayIsNone(args.gateway)
    THEN IF args.proxyjump.given
         THEN ConnectionGateway(ConnectionTo(args.proxyjump.text))
         ELSE IF args.proxycommand.given
              THEN CommandGateway(args.proxycommand.text)
              ELSE args.config_gateway
    ELSE args.gateway

\* __init__: the forward_agent attribute; config.forward_agent is False
InitForwardAgent(args) ==
    IF args.forward_agent = "None"
    THEN IF args.forwardagent = "absent" THEN FALSE
         ELSE args.forwardagent = "yes"
    ELSE args.forward_agent = "True"

\* Mutant of Clash: the kwarg is never looked at
ClashIgnored(short, kwarg) == FALSE

\* `if shorthand[x] is not None: if x is not None: raise ValueError`
Clash(short, kwarg) == short.given /\ kwarg.given

\* The attributes before __init__ (the class attributes), and when it raised
Unset ==
    [error |-> "None", host |-> NoneText, original_host |-> NoneText,
     user |-> <<>>, port |-> 0, gateway |-> NoGateway,
     forward_agent |-> FALSE, client |-> FALSE]

NewCall ==
    /\ init_pc = "call"
    /\ init_args \in InitCalls
    /\ init_self = Unset

\* The state of the Connections when A is about to be made: B and C exist,
\* unopened and with no gateway
NewInit ==
    /\ gateway = [s \in Sessions |-> NoGateway]
    /\ forward_agent = [s \in Sessions |-> FALSE]
    /\ transport = [s \in Sessions |-> 0]
    /\ active = [s \in Sessions |-> FALSE]
    /\ connects = [s \in Sessions |-> 0]
    /\ closed = [s \in Sessions |-> 0]
    /\ dropped = [s \in Sessions |-> 0]
    /\ agent_handler = [s \in Sessions |-> 0]
    /\ agent_closed = [s \in Sessions |-> {}]
    /\ agent_made = [s \in Sessions |-> 0]
    /\ sftp = [s \in Sessions |-> 0]
    /\ sftp_opens = [s \in Sessions |-> 0]
    /\ sftp_returns = [s \in Sessions |-> {}]
    /\ stack = <<>>
    /\ events = <<>>
    /\ outcome = "idle"
    /\ call = [op |-> "-", self |-> "-", fresh |-> TRUE, connected |-> FALSE]
    /\ disturbed = FALSE

\* Mutant of InitEvents: the ProxyCommand is spun up at init time
InitEventsProxy(g) ==
    IF IsString(g) THEN <<ProxyEvent("A", g.command)>> ELSE <<>>

\* What __init__ does to the network with the gateway it has settled on:
\* it keeps the string or the Connection as given and creates an SSHClient
\* that is not connected
InitEvents(g) == <<>>

\* __init__, for the Connection A
Construct ==
    /\ init_pc = "call"
    /\ LET shorthand == derive_shorthand(init_args.host)
           user == IF shorthand.user.given THEN shorthand.user
                   ELSE init_args.user
           port == IF shorthand.port.given THEN shorthand.port
                   ELSE init_args.port
       IN  IF \/ Clash(shorthand.user, init_args.user)
              \/ Clash(shorthand.port, init_args.port)
           THEN /\ init_pc' = "raised"
                /\ init_self' = [Unset EXCEPT !.error = "ValueError"]
                /\ UNCHANGED <<gateway, forward_agent, events>>
           ELSE /\ init_pc' = "done"
                /\ init_self' =
                     [error |-> "None",
                      host |-> shorthand.host,
                      original_host |-> shorthand.host,
                      user |-> TextOr(user, ConfigUser),
                      port |-> IntOr(port, ConfigPort),
                      gateway |-> InitGateway(init_args),
                      forward_agent |-> InitForwardAgent(init_args),
                      client |-> TRUE]
                /\ gateway' = [gateway EXCEPT !["A"] = InitGateway(init_args)]
                /\ forward_agent' =
                     [forward_agent EXCEPT !["A"] = InitForwardAgent(init_args)]
                /\ events' = events \o InitEvents(InitGateway(init_args))
    /\ UNCHANGED <<init_args, transport, active, connects, closed, dropped,
                   agent_handler, agent_closed, stack, outcome, call,
                   disturbed>>
    /\ UNCHANGED sessVars

\* The Connection made is the A of the lifecycle model: its host, user and
\* port are A's
MadeA ==
    /\ init_pc = "done"
    /\ init_self.host = Text(<<Host("A")>>)
    /\ init_self.user = <<User("A")>>
    /\ init_self.port = int(Port("A"))

\* The first operation on the Connection made: open()
FirstOpen ==
    /\ MadeA
    /\ outcome = "idle"
    /\ CallOpen("A")

----------------------------------------------------------------------------
(* forward_remote *)

\* A Tunnel that does not exist yet
NoTunnel == [state |-> "none", chan |-> 0, finished |-> FALSE,
             joined |-> FALSE, exc |-> FALSE, inscope |-> FALSE]

\* Tunnel(channel=channel, sock=sock, finished=Event()), started
NewTunnel(n, inscope) == [state |-> "alive", chan |-> n, finished |-> FALSE,
                          joined |-> FALSE, exc |-> FALSE, inscope |-> inscope]

\* Mutant of PortIsFalsy: only a port that is not given is replaced
PortIsNone(x) == ~x.given

\* `if not local_port`, `if not remote_port`: None and 0 alike
PortIsFalsy(x) == ~x.given \/ x.n = 0

\* The calls explored: forward_remote(remote_port[, local_port])
FRCalls ==
    { [remote_port |-> 8080, local_port |-> lp, remote_host |-> "127.0.0.1",
       local_host |-> "localhost"] :
        lp \in {NoneNumber, Number(0), Number(9090), Number(8080)} }

\* Before forward_remote is called; also the value of these variables in
\* the specifications that are not about forward_remote
FRIdle(pc) ==
    /\ fr_pc = pc
    /\ fr_args \in (IF pc = "off" THEN {CHOOSE c \in FRCalls : TRUE} ELSE FRCalls)
    /\ fr_local_port = fr_args.local_port
    /\ fr_tunnels = <<>>
    /\ fr_i = 0
    /\ fr_tunnel = [n \in 1..MaxCallbacks |-> NoTunnel]
    /\ fr_chan = [n \in 1..MaxCallbacks |-> "none"]
    /\ fr_requests = <<>>
    /\ fr_cancels = <<>>
    /\ fr_registered = "no"
    /\ fr_handler = FALSE
    /\ fr_exc = NoException
    /\ fr_raised = NoException
    /\ cb_pc = "idle"
    /\ cb_n = 0

\* The session forward_remote and forward_local run on: @opens has opened it
ConnOpened ==
    /\ gateway = [s \in Sessions |-> NoGateway]
    /\ forward_agent = [s \in Sessions |-> FALSE]
    /\ transport = [s \in Sessions |-> IF s = "C" THEN 1 ELSE 0]
    /\ active = [s \in Sessions |-> s = "C"]
    /\ connects = [s \in Sessions |-> IF s = "C" THEN 1 ELSE 0]
    /\ closed = [s \in Sessions |-> 0]
    /\ dropped = [s \in Sessions |-> 0]
    /\ agent_handler = [s \in Sessions |-> 0]
    /\ agent_closed = [s \in Sessions |-> {}]
    /\ agent_made = [s \in Sessions |-> 0]
    /\ sftp = [s \in Sessions |-> 0]
    /\ sftp_opens = [s \in Sessions |-> 0]
    /\ sftp_returns = [s \in Sessions |-> {}]
    /\ stack = <<>>
    /\ events = <<>>
    /\ outcome = "idle"
    /\ call = [op |-> "-", self |-> "-", fresh |-> TRUE, connected |-> FALSE]
    /\ disturbed = FALSE

\* (address, port) as given to request_port_forward
FRRequestArgs == <<fr_args.remote_host, fr_args.remote_port>>

\* Mutant of FRCancelArgs: the local port where the remote one belongs
FRCancelArgsLocal == <<fr_args.remote_host, fr_local_port.n>>

\* (address, port) as given to cancel_port_forward
FRCancelArgs == <<fr_args.remote_host, fr_args.remote_port>>

\* `if not local_port: local_port = remote_port`; tunnels = []
FRDefaults ==
    /\ fr_pc = "call"
    /\ fr_local_port' = IF PortIsFalsy(fr_args.local_port)
                        THEN Number(fr_args.remote_port)
                        ELSE fr_args.local_port
    /\ fr_tunnels' = <<>>
    /\ fr_pc' = "request"
    /\ UNCHANGED <<fr_args, fr_i, fr_tunnel, fr_chan, fr_requests,
                   fr_cancels, fr_registered, fr_handler, fr_exc, fr_raised, cb_pc, cb_n>>

\* try: self.transport.request_port_forward(...) returns; yield
FRRequestOk ==
    /\ fr_pc = "request"
    /\ fr_requests' = Append(fr_requests, FRRequestArgs)
    /\ fr_registered' = "ok"
    /\ fr_handler' = TRUE
    /\ fr_pc' = "yield"
    /\ UNCHANGED <<fr_args, fr_local_port, fr_tunnels, fr_i, fr_tunnel,
                   fr_chan, fr_cancels, fr_exc, fr_raised,
                   cb_pc, cb_n>>

\* Mutant of FRAfterRequestRaises: the request made before the try
FRAfterRequestRaisesNoFinally == "done"

\* Where a raising request_port_forward goes: it is the first statement of
\* the try, so to the finally clause
FRAfterRequestRaises == "loop"

\* try: self.transport.request_port_forward(...) raises: on to finally
FRRequestFails ==
    /\ fr_pc = "request"
    /\ fr_requests' = Append(fr_requests, FRRequestArgs)
    /\ fr_registered' = "failed"
    /\ fr_exc' = "RequestError"
    /\ fr_pc' = FRAfterRequestRaises
    /\ UNCHANGED <<fr_args, fr_local_port, fr_tunnels, fr_i, fr_tunnel,
                   fr_chan, fr_cancels, fr_handler, fr_raised,
                   cb_pc, cb_n>>

\* The caller's block ends, normally or by raising: on to finally
FRBlockExits(exc) ==
    /\ fr_pc = "yield"
    /\ fr_exc' = exc
    /\ fr_pc' = "loop"
    /\ UNCHANGED <<fr_args, fr_local_port, fr_tunnels, fr_i, fr_tunnel,
                   fr_chan, fr_requests, fr_cancels, fr_registered,
                   fr_handler, fr_raised, cb_pc, cb_n>>

\* `for tunnel in tunnels:` over the list itself: the iterator takes the
\* next item if the list now has one, and ends otherwise.
\* tunnel.finished.set()
FRLoopNext ==
    /\ fr_pc = "loop"
    /\ IF fr_i < Len(fr_tunnels)
       THEN /\ fr_tunnel' = [fr_tunnel EXCEPT ![fr_tunnels[fr_i + 1]].finished = TRUE]
            /\ fr_pc' = "join"
       ELSE /\ fr_pc' = "cancel"
            /\ UNCHANGED fr_tunnel
    /\ UNCHANGED <<fr_args, fr_local_port, fr_tunnels, fr_i, fr_chan,
                   fr_requests, fr_cancels, fr_registered, fr_handler,
                   fr_exc, fr_raised, cb_pc, cb_n>>

\* tunnel.join(): returns once the tunnel's thread has ended
FRJoin ==
    /\ fr_pc = "join"
    /\ fr_tunnel[fr_tunnels[fr_i + 1]].state = "done"
    /\ fr_tunnel' = [fr_tunnel EXCEPT ![fr_tunnels[fr_i + 1]].joined = TRUE]
    /\ fr_i' = fr_i + 1
    /\ fr_pc' = "loop"
    /\ UNCHANGED <<fr_args, fr_local_port, fr_tunnels, fr_chan, fr_requests,
                   fr_cancels, fr_registered, fr_handler, fr_exc, fr_raised, cb_pc, cb_n>>

\* self.transport.cancel_port_forward(...), the last statement of finally:
\* if it returns the pending exception (if any) goes on to the caller, if
\* it raises its own exception does.
FRCancel(raises) ==
    /\ fr_pc = "cancel"
    /\ fr_cancels' = Append(fr_cancels, FRCancelArgs)
    /\ fr_handler' = FALSE
    /\ fr_raised' = IF raises THEN "CancelError" ELSE fr_exc
    /\ fr_exc' = NoException
    /\ fr_pc' = "done"
    /\ UNCHANGED <<fr_args, fr_local_port, fr_tunnels, fr_i, fr_tunnel,
                   fr_chan, fr_requests, fr_registered, cb_pc,
                   cb_n>>

\* The transport thread calls callback(channel, ...) for a connection to
\* the remote port; sock = socket.socket()
CallbackInvoked ==
    /\ fr_handler
    /\ cb_pc = "idle"
    /\ cb_n < MaxCallbacks
    /\ cb_n' = cb_n + 1
    /\ fr_chan' = [fr_chan EXCEPT ![cb_n + 1] = "open"]
    /\ cb_pc' = "connect"
    /\ UNCHANGED <<fr_pc, fr_args, fr_local_port, fr_tunnels, fr_i,
                   fr_tunnel, fr_requests, fr_cancels, fr_registered,
                   fr_handler, fr_exc, fr_raised>>

\* sock.connect((local_host, local_port)) returns
CallbackConnectOk ==
    /\ cb_pc = "connect"
    /\ cb_pc' = "start"
    /\ UNCHANGED <<fr_pc, fr_args, fr_local_port, fr_tunnels, fr_i,
                   fr_tunnel, fr_chan, fr_requests, fr_cancels,
                   fr_registered, fr_handler, fr_exc, fr_raised,
                   cb_n>>

\* sock.connect((local_host, local_port)) raises: the exception leaves
\* callback at once, which neither touches the channel nor makes a Tunnel
CallbackConnectFails ==
    /\ cb_pc = "connect"
    /\ cb_pc' = "failed"
    /\ UNCHANGED <<fr_pc, fr_args, fr_local_port, fr_tunnels, fr_i,
                   fr_tunnel, fr_chan, fr_requests, fr_cancels,
                   fr_registered, fr_handler, fr_exc, fr_raised, cb_n>>

\* The transport thread is ready for the next connection
CallbackFailed ==
    /\ cb_pc = "failed"
    /\ cb_pc' = "idle"
    /\ UNCHANGED <<fr_pc, fr_args, fr_local_port, fr_tunnels, fr_i,
                   fr_tunnel, fr_chan, fr_requests, fr_cancels,
                   fr_registered, fr_handler, fr_exc, fr_raised,
                   cb_n>>

\* tunnel = Tunnel(channel=channel, sock=sock, finished=Event());
\* tunnel.start()
CallbackStart ==
    /\ cb_pc = "start"
    /\ fr_tunnel' = [fr_tunnel EXCEPT ![cb_n] = NewTunnel(cb_n, fr_pc # "done")]
    /\ cb_pc' = "append"
    /\ UNCHANGED <<fr_pc, fr_args, fr_local_port, fr_tunnels, fr_i, fr_chan,
                   fr_requests, fr_cancels, fr_registered, fr_handler,
                   fr_exc, fr_raised, cb_n>>

\* tunnels.append(tunnel)
CallbackAppend ==
    /\ cb_pc = "append"
    /\ fr_tunnels' = Append(fr_tunnels, cb_n)
    /\ cb_pc' = "idle"
    /\ UNCHANGED <<fr_pc, fr_args, fr_local_port, fr_i, fr_tunnel, fr_chan,
                   fr_requests, fr_cancels, fr_registered, fr_handler,
                   fr_exc, fr_raised, cb_n>>

\* A Tunnel's thread ends: it saw its finished event set, or one side
\* reached end-of-stream, or an I/O error was recorded in its slot.  Either
\* way it closes its socket and its channel.
TunnelEnds(n, why) ==
    /\ fr_tunnel[n].state = "alive"
    /\ why = "finished" => fr_tunnel[n].finished
    /\ fr_tunnel' = [fr_tunnel EXCEPT ![n].state = "done",
                                      ![n].exc = (why = "error")]
    /\ fr_chan' = [fr_chan EXCEPT ![fr_tunnel[n].chan] = "closed"]
    /\ UNCHANGED <<fr_pc, fr_args, fr_local_port, fr_tunnels, fr_i,
                   fr_requests, fr_cancels, fr_registered, fr_handler,
                   fr_exc, fr_raised, cb_pc, cb_n>>

----------------------------------------------------------------------------
(* forward_local *)

\* Exceptions: the type, a name that tells one original error from another,
\* for a ThreadException the names of the exceptions its wrappers hold, and
\* who built it
NoExc == [type |-> "None", name |-> <<"None", 0>>, causes |-> {}, by |-> "-"]

Error(type, n) == [type |-> type, name |-> <<type, n>>, causes |-> {}, by |-> "-"]

ThreadException(causes, by) ==
    [type |-> "ThreadException", name |-> <<"ThreadException", 0>>,
     causes |-> causes, by |-> by]

\* An ExceptionWrapper: .type and .value
Wrapper(e) == [type |-> e.type, value |-> e]

NoWrapper == [type |-> "None", value |-> NoExc]

TunnelError(n) == Error("TunnelError", n)

\* The calls explored: forward_local(local_port[, remote_port])
FLCalls ==
    { [local_port |-> 5432, remote_port |-> rp, remote_host |-> "localhost",
       local_host |-> "localhost"] :
        rp \in {NoneNumber, Number(0), Number(6543), Number(5432)} }

FLIdle(pc) ==
    /\ fl_pc = pc
    /\ fl_args \in (IF pc = "off" THEN {CHOOSE c \in FLCalls : TRUE} ELSE FLCalls)
    /\ fl_remote_port = fl_args.remote_port
    /\ fl_finished = FALSE
    /\ fl_joined = FALSE
    /\ fl_exc = NoExc
    /\ fl_raised = NoExc
    /\ mg_pc = "none"
    /\ mg_own = NoExc
    /\ mg_n = 0
    /\ mg_i = 0
    /\ mg_tunnel = [n \in 1..MaxAccepts |-> NoTunnel]
    /\ mg_slot = NoWrapper

\* `if not remote_port: remote_port = local_port`; finished = Event();
\* manager = TunnelManager(...); manager.start()
FLStart ==
    /\ fl_pc = "call"
    /\ fl_remote_port' = IF PortIsFalsy(fl_args.remote_port)
                         THEN Number(fl_args.local_port)
                         ELSE fl_args.remote_port
    /\ fl_finished' = FALSE
    /\ mg_pc' = "accept"
    /\ fl_pc' = "yield"
    /\ UNCHANGED <<fl_args, fl_joined, fl_exc, fl_raised, mg_own, mg_n, mg_i,
                   mg_tunnel, mg_slot>>

\* Mutant of FLAfterBlock: no finally, so a raising block skips the teardown
FLAfterBlockNoFinally(exc) == IF exc = NoExc THEN "set" ELSE "inspect"

\* try: yield / finally: whatever the block did, the teardown is next
FLAfterBlock(exc) == "set"

\* The caller's block ends, normally or by raising
FLBlockExits(exc) ==
    /\ fl_pc = "yield"
    /\ fl_exc' = exc
    /\ fl_pc' = FLAfterBlock(exc)
    /\ UNCHANGED <<fl_args, fl_remote_port, fl_finished, fl_joined, fl_raised,
                   mg_pc, mg_own, mg_n, mg_i, mg_tunnel, mg_slot>>

\* finished.set()
FLSetFinished ==
    /\ fl_pc = "set"
    /\ fl_finished' = TRUE
    /\ fl_pc' = "join"
    /\ UNCHANGED <<fl_args, fl_remote_port, fl_joined, fl_exc, fl_raised,
                   mg_pc, mg_own, mg_n, mg_i, mg_tunnel, mg_slot>>

\* manager.join(): returns once the manager's thread has ended
FLJoin ==
    /\ fl_pc = "join"
    /\ mg_pc = "done"
    /\ fl_joined' = TRUE
    /\ fl_pc' = "inspect"
    /\ UNCHANGED <<fl_args, fl_remote_port, fl_finished, fl_exc, fl_raised,
                   mg_pc, mg_own, mg_n, mg_i, mg_tunnel, mg_slot>>

\* Mutant of FLRaise: the manager's failure is not looked at
FLRaiseNothing(wrapper, pending) == pending

\* Mutant of FLRaise: the manager's failure re-raised as it is
FLRaiseAsIs(wrapper, pending) ==
    IF wrapper # NoWrapper THEN wrapper.value ELSE pending

\* Mutant of FLRaise: the manager's failure always wrapped anew
FLRaiseWrapped(wrapper, pending) ==
    IF wrapper # NoWrapper
    THEN ThreadException({wrapper.value.name}, "forward_local")
    ELSE pending

\* wrapper = manager.exception(), then, inside the finally block,
\* `raise wrapper.value` for a ThreadException and
\* `raise ThreadException([wrapper])` for anything else; with no wrapper the
\* finally block ends and the block's own exception (if any) goes on.
FLRaise(wrapper, pending) ==
    IF wrapper # NoWrapper
    THEN IF wrapper.type = "ThreadException"
         THEN wrapper.value
         ELSE ThreadException({wrapper.value.name}, "forward_local")
    ELSE pending

FLInspect ==
    /\ fl_pc = "inspect"
    /\ fl_raised' = FLRaise(mg_slot, fl_exc)
    /\ fl_pc' = "done"
    /\ UNCHANGED <<fl_args, fl_remote_port, fl_finished, fl_joined, fl_exc,
                   mg_pc, mg_own, mg_n, mg_i, mg_tunnel, mg_slot>>

\* TunnelManager's accept loop: a local connection is accepted, a channel
\* opened for it, and a Tunnel over the two started and tracked
ManagerAccepts ==
    /\ mg_pc = "accept"
    /\ mg_n < MaxAccepts
    /\ mg_n' = mg_n + 1
    /\ mg_tunnel' = [mg_tunnel EXCEPT ![mg_n + 1] = NewTunnel(mg_n + 1, TRUE)]
    /\ UNCHANGED <<fl_pc, fl_args, fl_remote_port, fl_finished, fl_joined,
                   fl_exc, fl_raised, mg_pc, mg_own, mg_i, mg_slot>>

\* The accept loop ends: the shutdown signal is set, or the loop itself
\* failed (accept, or opening the channel)
ManagerLoopEnds(failed) ==
    /\ mg_pc = "accept"
    /\ ~failed => fl_finished
    /\ mg_own' = IF failed THEN Error("ManagerError", 0) ELSE NoExc
    /\ mg_pc' = "stopping"
    /\ UNCHANGED <<fl_pc, fl_args, fl_remote_port, fl_finished, fl_joined,
                   fl_exc, fl_raised, mg_n, mg_i, mg_tunnel, mg_slot>>

\* On stop: request stop on the next tracked Tunnel
ManagerStopsTunnel ==
    /\ mg_pc = "stopping"
    /\ mg_i < mg_n
    /\ ~mg_tunnel[mg_i + 1].finished
    /\ mg_tunnel' = [mg_tunnel EXCEPT ![mg_i + 1].finished = TRUE]
    /\ UNCHANGED <<fl_pc, fl_args, fl_remote_port, fl_finished, fl_joined,
                   fl_exc, fl_raised, mg_pc, mg_own, mg_n, mg_i, mg_slot>>

\* On stop: wait for that Tunnel to finish
ManagerJoinsTunnel ==
    /\ mg_pc = "stopping"
    /\ mg_i < mg_n
    /\ mg_tunnel[mg_i + 1].finished
    /\ mg_tunnel[mg_i + 1].state = "done"
    /\ mg_tunnel' = [mg_tunnel EXCEPT ![mg_i + 1].joined = TRUE]
    /\ mg_i' = mg_i + 1
    /\ UNCHANGED <<fl_pc, fl_args, fl_remote_port, fl_finished, fl_joined,
                   fl_exc, fl_raised, mg_pc, mg_own, mg_n, mg_slot>>

\* The failures of the manager's Tunnels
ManagerTunnelFailures == {TunnelError(n).name : n \in {m \in 1..MaxAccepts : mg_tunnel[m].exc}}

\* The manager's exception slot once it has stopped: nothing without a
\* failure; its own failure as it is when that is the only one; otherwise a
\* ThreadException made by the manager that carries every failure.
ManagerException ==
    IF mg_own = NoExc /\ ManagerTunnelFailures = {} THEN NoWrapper
    ELSE IF ManagerTunnelFailures = {} THEN Wrapper(mg_own)
    ELSE Wrapper(ThreadException(
            ManagerTunnelFailures
                \cup (IF mg_own = NoExc THEN {} ELSE {mg_own.name}),
            "manager"))

\* Every Tunnel is stopped and joined: the manager's thread ends
ManagerEnds ==
    /\ mg_pc = "stopping"
    /\ mg_i = mg_n
    /\ mg_slot' = ManagerException
    /\ mg_pc' = "done"
    /\ UNCHANGED <<fl_pc, fl_args, fl_remote_port, fl_finished, fl_joined,
                   fl_exc, fl_raised, mg_own, mg_n, mg_i, mg_tunnel>>

\* One of the manager's Tunnels ends: stop requested, end-of-stream, or an
\* I/O error recorded in its slot
ManagerTunnelEnds(n, why) ==
    /\ mg_tunnel[n].state = "alive"
    /\ why = "finished" => mg_tunnel[n].finished
    /\ mg_tunnel' = [mg_tunnel EXCEPT ![n].state = "done",
                                      ![n].exc = (why = "error")]
    /\ UNCHANGED <<fl_pc, fl_args, fl_remote_port, fl_finished, fl_joined,
                   fl_exc, fl_raised, mg_pc, mg_own, mg_n, mg_i, mg_slot>>

----------------------------------------------------------------------------
(* Specifications *)

InitConn == ConnInit /\ WithIdle("off") /\ NewIdle("off") /\ FRIdle("off") /\ FLIdle("off")

NextConn ==
    \/ (\E s \in Sessions : CallOpen(s)) /\ UNCHANGED <<withVars, initVars, frVars, flVars>>
    \/ (\E s \in Sessions : CallRun(s)) /\ UNCHANGED <<withVars, initVars, frVars, flVars>>
    \/ Opens /\ UNCHANGED <<withVars, initVars, frVars, flVars>>
    \/ RunBody /\ UNCHANGED <<withVars, initVars, frVars, flVars>>
    \/ OpenCheck /\ UNCHANGED <<withVars, initVars, frVars, flVars>>
    \/ OpenGatewayStart /\ UNCHANGED <<withVars, initVars, frVars, flVars>>
    \/ OpenGatewayChannel /\ UNCHANGED <<withVars, initVars, frVars, flVars>>
    \/ ConnectOk /\ UNCHANGED <<withVars, initVars, frVars, flVars>>
    \/ ConnectFails /\ UNCHANGED <<withVars, initVars, frVars, flVars>>
    \/ (\E s \in Sessions : Close(s)) /\ UNCHANGED <<withVars, initVars, frVars, flVars>>
    \/ (\E s \in Sessions : Drop(s)) /\ UNCHANGED <<withVars, initVars, frVars, flVars>>

\* The Connection lifecycle
Spec == InitConn /\ [][NextConn]_vars

InitOps == OpsInit /\ WithIdle("off") /\ NewIdle("off") /\ FRIdle("off") /\ FLIdle("off")

NextOps ==
    \/ CallOpen("A") /\ UNCHANGED <<withVars, initVars, frVars, flVars>>
    \/ CallRun("A") /\ UNCHANGED <<withVars, initVars, frVars, flVars>>
    \/ CallSftp("A") /\ UNCHANGED <<withVars, initVars, frVars, flVars>>
    \/ CallCreateSession("A") /\ UNCHANGED <<withVars, initVars, frVars, flVars>>
    \/ CallForwardLocal("A") /\ UNCHANGED <<withVars, initVars, frVars, flVars>>
    \/ CallForwardRemote("A") /\ UNCHANGED <<withVars, initVars, frVars, flVars>>
    \/ Opens /\ UNCHANGED <<withVars, initVars, frVars, flVars>>
    \/ RunBody /\ UNCHANGED <<withVars, initVars, frVars, flVars>>
    \/ SftpBody /\ UNCHANGED <<withVars, initVars, frVars, flVars>>
    \/ CreateSessionBody /\ UNCHANGED <<withVars, initVars, frVars, flVars>>
    \/ ForwardLocalBody /\ UNCHANGED <<withVars, initVars, frVars, flVars>>
    \/ ForwardRemoteBody /\ UNCHANGED <<withVars, initVars, frVars, flVars>>
    \/ OpenCheck /\ UNCHANGED <<withVars, initVars, frVars, flVars>>
    \/ OpenGatewayStart /\ UNCHANGED <<withVars, initVars, frVars, flVars>>
    \/ OpenGatewayChannel /\ UNCHANGED <<withVars, initVars, frVars, flVars>>
    \/ ConnectOk /\ UNCHANGED <<withVars, initVars, frVars, flVars>>
    \/ ConnectFails /\ UNCHANGED <<withVars, initVars, frVars, flVars>>
    \/ Close("A") /\ UNCHANGED <<withVars, initVars, frVars, flVars>>
    \/ (\E s \in Sessions : Drop(s)) /\ UNCHANGED <<withVars, initVars, frVars, flVars>>

\* The operations of one Connection, A, with agent forwarding and SFTP
SpecOps == InitOps /\ [][NextOps]_vars

InitNew == NewInit /\ WithIdle("off") /\ NewCall /\ FRIdle("off") /\ FLIdle("off")

NextNew ==
    \/ Construct /\ UNCHANGED <<withVars, frVars, flVars>>
    \/ FirstOpen /\ UNCHANGED <<withVars, initVars, frVars, flVars>>
    \/ OpenCheck /\ UNCHANGED <<withVars, initVars, frVars, flVars>>
    \/ OpenGatewayStart /\ UNCHANGED <<withVars, initVars, frVars, flVars>>
    \/ OpenGatewayChannel /\ UNCHANGED <<withVars, initVars, frVars, flVars>>
    \/ ConnectOk /\ UNCHANGED <<withVars, initVars, frVars, flVars>>
    \/ ConnectFails /\ UNCHANGED <<withVars, initVars, frVars, flVars>>
    \/ (\E s \in Sessions : Drop(s)) /\ UNCHANGED <<withVars, initVars, frVars, flVars>>

\* The making of one Connection, A, and its first open()
SpecNew == InitNew /\ [][NextNew]_vars

InitPorts == ConnOpened /\ WithIdle("off") /\ NewIdle("off") /\ FRIdle("call") /\ FLIdle("call")

NextPorts ==
    \/ FRDefaults /\ UNCHANGED <<connVars, withVars, initVars, flVars>>
    \/ FRRequestOk /\ UNCHANGED <<connVars, withVars, initVars, flVars>>
    \/ FRRequestFails /\ UNCHANGED <<connVars, withVars, initVars, flVars>>
    \/ FLStart /\ UNCHANGED <<connVars, withVars, initVars, frVars>>

\* The entry of a forward_remote and of a forward_local scope, up to the
\* yield, over the port arguments
SpecPorts == InitPorts /\ [][NextPorts]_vars

InitWith == OpsInit /\ WithIdle("before") /\ NewIdle("off") /\ FRIdle("off") /\ FLIdle("off")

NextWith ==
    \/ WithEnter /\ UNCHANGED <<connVars, initVars, frVars, flVars>>
    \/ (\E exc \in {NoException, "BlockError"} : WithBlockExits(exc))
            /\ UNCHANGED <<connVars, initVars, frVars, flVars>>
    \/ WithExit("A") /\ UNCHANGED <<initVars, frVars, flVars>>
    \/ (with_pc = "in" /\ CallOpen("A")) /\ UNCHANGED <<withVars, initVars, frVars, flVars>>
    \/ (with_pc = "in" /\ CallRun("A")) /\ UNCHANGED <<withVars, initVars, frVars, flVars>>
    \/ (with_pc = "in" /\ CallCreateSession("A"))
            /\ UNCHANGED <<withVars, initVars, frVars, flVars>>
    \/ Opens /\ UNCHANGED <<withVars, initVars, frVars, flVars>>
    \/ RunBody /\ UNCHANGED <<withVars, initVars, frVars, flVars>>
    \/ CreateSessionBody /\ UNCHANGED <<withVars, initVars, frVars, flVars>>
    \/ OpenCheck /\ UNCHANGED <<withVars, initVars, frVars, flVars>>
    \/ OpenGatewayStart /\ UNCHANGED <<withVars, initVars, frVars, flVars>>
    \/ OpenGatewayChannel /\ UNCHANGED <<withVars, initVars, frVars, flVars>>
    \/ ConnectOk /\ UNCHANGED <<withVars, initVars, frVars, flVars>>
    \/ ConnectFails /\ UNCHANGED <<withVars, initVars, frVars, flVars>>
    \/ (\E s \in Sessions : Drop(s)) /\ UNCHANGED <<withVars, initVars, frVars, flVars>>

\* One Connection, A, used in with statements
SpecWith == InitWith /\ [][NextWith]_vars

InitChain == ChainInit /\ WithIdle("off") /\ NewIdle("off") /\ FRIdle("off") /\ FLIdle("off")

\* A step of the foreground thread inside open(): the thread keeps running,
\* and client.connect returns or raises in the end
OpenStep ==
    \/ OpenCheck /\ UNCHANGED <<withVars, initVars, frVars, flVars>>
    \/ OpenGatewayStart /\ UNCHANGED <<withVars, initVars, frVars, flVars>>
    \/ OpenGatewayChannel /\ UNCHANGED <<withVars, initVars, frVars, flVars>>
    \/ ConnectOk /\ UNCHANGED <<withVars, initVars, frVars, flVars>>
    \/ ConnectFails /\ UNCHANGED <<withVars, initVars, frVars, flVars>>

NextChain ==
    \/ (\E s \in Sessions : CallOpen(s)) /\ UNCHANGED <<withVars, initVars, frVars, flVars>>
    \/ OpenStep
    \/ (\E s \in Sessions : Drop(s)) /\ UNCHANGED <<withVars, initVars, frVars, flVars>>

\* open() over ProxyJump chains, with a foreground thread that keeps going
SpecChain == InitChain /\ [][NextChain]_vars /\ WF_vars(OpenStep)

InitFR == ConnOpened /\ WithIdle("off") /\ NewIdle("off") /\ FRIdle("call") /\ FLIdle("off")

NextFR ==
    \/ FRDefaults /\ UNCHANGED <<connVars, withVars, initVars, flVars>>
    \/ FRRequestOk /\ UNCHANGED <<connVars, withVars, initVars, flVars>>
    \/ FRRequestFails /\ UNCHANGED <<connVars, withVars, initVars, flVars>>
    \/ (\E exc \in {NoException, "UserError"} : FRBlockExits(exc))
            /\ UNCHANGED <<connVars, withVars, initVars, flVars>>
    \/ FRLoopNext /\ UNCHANGED <<connVars, withVars, initVars, flVars>>
    \/ FRJoin /\ UNCHANGED <<connVars, withVars, initVars, flVars>>
    \/ (\E raises \in BOOLEAN : FRCancel(raises)) /\ UNCHANGED <<connVars, withVars, initVars, flVars>>
    \/ CallbackInvoked /\ UNCHANGED <<connVars, withVars, initVars, flVars>>
    \/ CallbackConnectOk /\ UNCHANGED <<connVars, withVars, initVars, flVars>>
    \/ CallbackConnectFails /\ UNCHANGED <<connVars, withVars, initVars, flVars>>
    \/ CallbackFailed /\ UNCHANGED <<connVars, withVars, initVars, flVars>>
    \/ CallbackStart /\ UNCHANGED <<connVars, withVars, initVars, flVars>>
    \/ CallbackAppend /\ UNCHANGED <<connVars, withVars, initVars, flVars>>
    \/ (\E n \in 1..MaxCallbacks, why \in {"finished", "eof", "error"} :
            TunnelEnds(n, why)) /\ UNCHANGED <<connVars, withVars, initVars, flVars>>

\* One forward_remote scope on an opened Connection
SpecFR == InitFR /\ [][NextFR]_vars

InitFL == ConnOpened /\ WithIdle("off") /\ NewIdle("off") /\ FRIdle("off") /\ FLIdle("call")

NextFL ==
    \/ FLStart /\ UNCHANGED <<connVars, withVars, initVars, frVars>>
    \/ (\E exc \in {NoExc, Error("UserError", 0)} : FLBlockExits(exc))
            /\ UNCHANGED <<connVars, withVars, initVars, frVars>>
    \/ FLSetFinished /\ UNCHANGED <<connVars, withVars, initVars, frVars>>
    \/ FLJoin /\ UNCHANGED <<connVars, withVars, initVars, frVars>>
    \/ FLInspect /\ UNCHANGED <<connVars, withVars, initVars, frVars>>
    \/ ManagerAccepts /\ UNCHANGED <<connVars, withVars, initVars, frVars>>
    \/ (\E failed \in BOOLEAN : ManagerLoopEnds(failed))
            /\ UNCHANGED <<connVars, withVars, initVars, frVars>>
    \/ ManagerStopsTunnel /\ UNCHANGED <<connVars, withVars, initVars, frVars>>
    \/ ManagerJoinsTunnel /\ UNCHANGED <<connVars, withVars, initVars, frVars>>
    \/ ManagerEnds /\ UNCHANGED <<connVars, withVars, initVars, frVars>>
    \/ (\E n \in 1..MaxAccepts, why \in {"finished", "eof", "error"} :
            ManagerTunnelEnds(n, why)) /\ UNCHANGED <<connVars, withVars, initVars, frVars>>

\* One forward_local scope on an opened Connection
SpecFL == InitFL /\ [][NextFL]_vars

----------------------------------------------------------------------------
(* Properties of open(), open_gateway() and close() *)

IsPrefix(p, q) == Len(p) <= Len(q) /\ SubSeq(q, 1, Len(p)) = p

\* A (gateway B), B (gateway C), C (no gateway)
ChainConfig == [A |-> ConnectionGateway("B"), B |-> ConnectionGateway("C"),
                C |-> NoGateway]

ChainEvents ==
    << ConnectEvent("C", NoSock),
       ChannelEvent("C", "direct-tcpip", <<"hostB", 2222>>, <<"", 0>>, 1),
       ConnectEvent("B", ChannelSock(1)),
       ChannelEvent("B", "direct-tcpip", <<"hostA", 22>>, <<"", 0>>, 2),
       ConnectEvent("A", ChannelSock(2)) >>

OpeningChain ==
    /\ gateway = ChainConfig
    /\ call.op = "open" /\ call.self = "A" /\ call.fresh

\* C1: with C (no gateway), B (gateway C) and A (gateway B) all unopened,
\* A.open() produces, in this order and nothing else: C's connect with no
\* sock, a direct-tcpip channel on C's transport to (B.host, int(B.port))
\* from ('', 0), B's connect over that channel, a channel on B's transport
\* to (A.host, int(A.port)), A's connect over that second channel.
C1_GatewayChainOrder ==
    OpeningChain =>
        /\ IsPrefix(events, ChainEvents)
        /\ outcome = "returned" => events = ChainEvents

C1_Witness ==
    OpeningChain /\ outcome = "returned" /\ events = ChainEvents

\* C2: an open() that finds the transport active returns at once: no
\* connect, no open_gateway, the transport handle kept; and after an open()
\* that returned the session is connected, so a second open() in a row
\* performs no connect.
C2_OpenIdempotent ==
    /\ [][ (TopIs("open", "check") /\ transport[Top.self] # 0
                /\ active[Top.self])
            => /\ connects' = connects
               /\ transport' = transport
               /\ events' = events
               /\ stack' = stack \/ stack' = ReturnTo(NoSock) ]_vars
    /\ [](  (outcome = "returned" /\ call.op = "open" /\ ~disturbed)
            => /\ transport[call.self] # 0 /\ active[call.self]
               /\ call.connected => events = <<>> )

C2_Witness ==
    /\ outcome = "returned" /\ call.op = "open" /\ call.connected
    /\ ~disturbed /\ events = <<>>
    /\ connects[call.self] = 1 /\ transport[call.self] = 1

\* C3 as claimed: once close() has closed an opened session, client.connect
\* is never invoked on it again.
C3_NoReopenAfterClose ==
    [][ \A s \in Sessions : closed[s] > 0 => connects'[s] = connects[s] ]_vars

\* C3 as amended: client.connect is invoked only while the transport handle
\* is absent or inactive, so a session is connected at most once more than
\* its transport was closed or dropped; a closed session is reconnected by
\* the next open().
C3_ConnectOnlyWhenInactive ==
    /\ [][ \A s \in Sessions :
             connects'[s] # connects[s] => ~(transport[s] # 0 /\ active[s]) ]_vars
    /\ [](\A s \in Sessions : transport[s] <= 1 + closed[s] + dropped[s])

C3_Witness ==
    \E s \in Sessions :
        closed[s] >= 1 /\ dropped[s] = 0 /\ transport[s] = 2 /\ active[s]

\* str(self.port) of each session
PortText(s) == CASE s = "A" -> "22" [] s = "B" -> "2222" [] OTHER -> "2200"

\* C16: for a session whose gateway is a command string, open_gateway makes
\* a ProxyCommand of the string with %h replaced by the session's own host
\* and %p by the session's own port, and opens no other session on the way.
C16_ProxyCommandExpansion ==
    \A i \in 1..Len(events) :
        events[i].ev = "ProxyCommand" =>
            /\ events[i].sock.cmd =
                    <<"nc", " ", Host(events[i].on), " ", PortText(events[i].on)>>
            /\ \A j \in 1..(i - 1) : events[j].on = events[i].on

----------------------------------------------------------------------------
(* Properties of __init__ *)

\* C14: after __init__, whatever the gateway configuration, no connect has
\* been performed, no channel opened, no proxy subprocess created and no
\* other Connection opened; the gateway is resolved only inside open().
C14_ConstructBindsNothing ==
    /\ (init_pc \in {"done", "raised"} /\ outcome = "idle") =>
            /\ events = <<>> /\ stack = <<>>
            /\ \A s \in Sessions :
                    connects[s] = 0 /\ transport[s] = 0 /\ ~active[s]
            /\ init_self.gateway.kind \in {"None", "False", "str", "Connection"}
    /\ events # <<>> => (call.op = "open" /\ outcome # "idle")

C14_Witness ==
    /\ init_pc = "done" /\ outcome = "idle"
    /\ init_args.gateway = NoGateway /\ ~init_args.proxyjump.given
    /\ init_self.gateway = CommandGateway(NcCommand)

\* The frames of open_gateway on A
OpenGatewayFrames ==
    {i \in 1..Len(stack) : stack[i].fn = "open_gateway" /\ stack[i].self = "A"}

\* C15: a Connection made with gateway=False keeps gateway False whatever
\* ssh_config (proxyjump, proxycommand) and config.gateway say, and its
\* open() never calls open_gateway and hands no sock to connect; one made
\* with gateway=None takes the configured value.
C15_FalseGatewayOverrides ==
    /\ (init_pc = "done" /\ init_args.gateway = FalseGateway) =>
            /\ gateway["A"] = FalseGateway
            /\ init_self.gateway = FalseGateway
            /\ OpenGatewayFrames = {}
            /\ \A i \in 1..Len(events) :
                    events[i].ev = "connect" /\ events[i].sock = NoSock
    /\ (init_pc = "done" /\ init_args.gateway = NoGateway) =>
            gateway["A"] =
                CASE init_args.proxyjump.given -> ConnectionGateway("C")
                  [] ~init_args.proxyjump.given /\ init_args.proxycommand.given ->
                        CommandGateway(NcCommand)
                  [] OTHER -> init_args.config_gateway

C15_Witness ==
    /\ init_pc = "done" /\ init_args.gateway = FalseGateway
    /\ init_args.proxyjump.given /\ init_args.proxycommand.given
    /\ init_args.config_gateway # NoGateway
    /\ call.op = "open" /\ outcome = "returned" /\ connects["A"] = 1

\* The host strings that give a user, and those that give a port
HostsWithUser ==
    { <<"alice", "@", "hostA">>, <<"alice", "@", "hostA", ":", "2", "2">> }

HostsWithPort ==
    { <<"hostA", ":", "2", "2">>, <<"alice", "@", "hostA", ":", "2", "2">> }

\* C20: __init__ raises ValueError when the user is given both in the host
\* shorthand and as the user argument, or the port both in the shorthand
\* and as the port argument, before any client is created; a value given
\* by one of the two sources alone is accepted.
C20_ValueErrorOnClash ==
    init_pc # "call" =>
        LET shortUser == init_args.host \in HostsWithUser
            shortPort == init_args.host \in HostsWithPort
            clash == \/ shortUser /\ init_args.user.given
                     \/ shortPort /\ init_args.port.given
        IN  /\ clash <=> init_pc = "raised"
            /\ init_pc = "raised" =>
                    init_self.error = "ValueError" /\ ~init_self.client
            /\ init_pc = "done" =>
                    /\ init_self.error = "None" /\ init_self.client
                    /\ (shortUser \/ init_args.user.given) =>
                            init_self.user = <<"alice">>
                    /\ (shortPort \/ init_args.port.given) =>
                            init_self.port = 22

C20_Witness ==
    /\ init_pc = "raised"
    /\ init_args.host = <<"hostA", ":", "2", "2">>
    /\ init_args.port.given /\ ~init_args.user.given

----------------------------------------------------------------------------
(* Properties of the operations behind @opens *)

\* An operation's own first use of the client or the transport
IsTransportUse(e) ==
    \/ e.ev \in {"run", "open_sftp", "TunnelManager", "request_port_forward"}
    \/ e.ev = "open_channel" /\ e.kind = "session"

\* events[j] is the connect of s, after the resolution of its gateway
IsOpening(j, s) ==
    /\ events[j].ev = "connect" /\ events[j].on = s
    /\ IF Truthy(gateway[s])
       THEN \E k \in 1..(j - 1) :
                /\ events[k].ev \in {"open_channel", "ProxyCommand"}
                /\ events[k].sock = events[j].sock
       ELSE events[j].sock = NoSock

\* C12: when run, sftp, create_session, forward_local or forward_remote is
\* invoked on a session that is not open, open() (the gateway resolved,
\* then the connect) has completed before the operation first uses the
\* transport.
C12_OpenBeforeFirstUse ==
    \A i \in 1..Len(events) :
        (IsTransportUse(events[i]) /\ ~call.connected) =>
            /\ events[i].on = call.self
            /\ transport[call.self] # 0
            /\ \E j \in 1..(i - 1) : IsOpening(j, call.self)

C12_Witness ==
    /\ call.op = "forward_remote" /\ ~call.connected /\ outcome = "returned"
    /\ gateway[call.self].kind = "Connection"
    /\ Len(events) = 4 /\ events[4].ev = "request_port_forward"

\* The positions in events of the connects of session s
ConnectsOf(s) ==
    {i \in 1..Len(events) : events[i].ev = "connect" /\ events[i].on = s}

\* C13: once the transport of an opened session has dropped, with close()
\* never called, no later operation on the session invokes client.connect
\* again.
C13_NoReconnectAfterDrop ==
    [][ \A s \in Sessions :
            (dropped[s] > 0 /\ closed[s] = 0) => connects'[s] = connects[s] ]_vars

\* C13, amended: a drop is not repaired within the operation it interrupts.
\* One call connects a session at most once, never after its body has
\* begun to use the transport, and not at all when the session was
\* connected at the call and stayed so; the reconnect is left to the
\* open() of the next operation.
C13_ReconnectOnlyByNextOpen ==
    /\ \A s \in Sessions : Cardinality(ConnectsOf(s)) <= 1
    /\ \A i, j \in 1..Len(events) :
            (i < j /\ IsTransportUse(events[i])) => events[j].ev # "connect"
    /\ (call.op # "-" /\ call.connected /\ ~disturbed) =>
            ConnectsOf(call.self) = {}

C13_Witness ==
    /\ call.op = "sftp" /\ call.self = "A" /\ outcome = "returned"
    /\ dropped["A"] = 1 /\ closed["A"] = 0
    /\ ~call.connected /\ ConnectsOf("A") # {} /\ connects["A"] = 2

\* C17: after close() on an open session returns, the client has been
\* closed and, with agent forwarding, every agent handler create_session
\* made for the session has been closed.
C17_CloseClosesEveryHandler ==
    (call.op = "close" /\ call.connected) =>
        /\ closed[call.self] >= 1 /\ ~active[call.self]
        /\ forward_agent[call.self] =>
                agent_closed[call.self] = 1..agent_made[call.self]

\* C18: over any sequence of operations on one Connection, client.open_sftp
\* is invoked at most once and every sftp() call returns the handle the
\* first call returned.
C18_SftpOpenedOnce ==
    \A s \in Sessions :
        sftp_opens[s] <= 1 /\ Cardinality(sftp_returns[s]) <= 1

\* C18, amended: client.open_sftp returns at most once.  It is invoked
\* again only while every earlier invocation raised; once it has returned,
\* the handle is kept in _sftp, open_sftp is not invoked any more and every
\* sftp() call that returns, returns that handle.
C18_SftpHandleMemoized ==
    \A s \in Sessions :
        /\ Cardinality(sftp_returns[s]) <= 1
        /\ IF sftp[s] = 0
           THEN sftp_returns[s] = {}
           ELSE sftp[s] = sftp_opens[s] /\ sftp_returns[s] = {sftp[s]}

C18_Witness ==
    /\ call.op = "sftp" /\ outcome = "returned" /\ events = <<>>
    /\ sftp_opens["A"] = 2 /\ sftp["A"] = 2 /\ sftp_returns["A"] = {2}

\* C19: close() on a session that is not open (never opened, or with a
\* transport that is not active) calls neither client.close nor the agent
\* handler's close, and leaves every attribute of every session as it was.
C19_CloseWhenNotOpenDoesNothing ==
    [][ ( /\ stack = <<>> /\ call'.op = "close" /\ ~disturbed'
          /\ ~(transport[call'.self] # 0 /\ active[call'.self]) ) =>
            /\ closed' = closed /\ agent_closed' = agent_closed
            /\ transport' = transport /\ active' = active
            /\ connects' = connects
            /\ gateway' = gateway /\ forward_agent' = forward_agent
            /\ agent_handler' = agent_handler /\ agent_made' = agent_made
            /\ sftp' = sftp /\ sftp_opens' = sftp_opens ]_vars

C19_Witness ==
    /\ call.op = "close" /\ ~call.connected /\ outcome = "returned"
    /\ transport[call.self] # 0 /\ dropped[call.self] = 1
    /\ closed[call.self] = 0
    /\ agent_handler[call.self] # 0 /\ agent_closed[call.self] = {}

----------------------------------------------------------------------------
(* Properties of forward_remote *)

\* The Tunnels callback created and started before forward_remote returned
FRScopeTunnels ==
    {n \in 1..MaxCallbacks : fr_tunnel[n].state # "none" /\ fr_tunnel[n].inscope}

\* The only exception slots a forward_remote scope has are its Tunnels'
FRRecordedFailures == {fr_tunnel[n].chan : n \in {m \in 1..MaxCallbacks : fr_tunnel[m].exc}}

\* C4: when forward_remote returns, every Tunnel the callback created and
\* started during the scope has had stop requested and has been joined,
\* under every interleaving of the callback with the teardown.
C4_NoTunnelOutlivesScope ==
    fr_pc = "done" =>
        \A n \in FRScopeTunnels : fr_tunnel[n].finished /\ fr_tunnel[n].joined

\* C5: after a forward_remote scope whose request was registered exits,
\* normally or because the block raised, cancel_port_forward has been
\* called exactly once, with the (address, port) of the request; it is
\* never called more than once.
C5_CancelOnceWithRequestArgs ==
    /\ Len(fr_cancels) <= 1
    /\ (fr_pc = "done" /\ fr_registered = "ok") =>
            /\ Len(fr_requests) = 1
            /\ fr_cancels = <<fr_requests[1]>>
            /\ fr_cancels = << <<fr_args.remote_host, fr_args.remote_port>> >>

C5_Witness ==
    /\ fr_pc = "done" /\ fr_registered = "ok" /\ fr_raised = "UserError"
    /\ fr_args.local_port = Number(9090)
    /\ Len(fr_cancels) = 1

\* C10: when the callback's outbound connect fails, the inbound channel is
\* closed and the failure is recorded.
C10_FailedConnectClosesChannel ==
    cb_pc = "failed" =>
        fr_chan[cb_n] = "closed" /\ cb_n \in FRRecordedFailures

\* The Tunnels of the scope that the teardown loop joined and whose worker
\* recorded a failure
FRJoinedFailures ==
    {n \in FRScopeTunnels : fr_tunnel[n].joined /\ fr_tunnel[n].exc}

\* C11: if a Tunnel the callback created recorded a failure, an error
\* reporting it is raised to the caller when forward_remote exits, after
\* the teardown has joined the Tunnels.
C11_WorkerFailureSurfaces ==
    (fr_pc = "done" /\ FRJoinedFailures # {}) => fr_raised = "ThreadException"

----------------------------------------------------------------------------
(* Properties of open() over a ProxyJump chain *)

\* The session, its gateway, its gateway's gateway, ...
RECURSIVE GatewayChain(_)
GatewayChain(s) ==
    IF gateway[s].kind = "Connection"
    THEN <<s>> \o GatewayChain(gateway[s].cxn)
    ELSE <<s>>

\* The frames of open() on session s: the open attempts outstanding
OpenFrames(s) ==
    {i \in 1..Len(stack) : stack[i].fn = "open" /\ stack[i].self = s}

Connected(s) == transport[s] # 0 /\ active[s]

\* The sessions the current call has invoked client.connect on
Reached == {s \in Sessions : ConnectsOf(s) # {}}

\* C23: for every acyclic ProxyJump chain, open() on the outermost session
\* terminates with every session of the chain connected, with at most one
\* client.connect per session and never more than one open attempt
\* outstanding per session.
C23_ChainOpensFully ==
    /\ (outcome = "running") ~>
            ( /\ outcome = "returned"
              /\ \A i \in 1..Len(GatewayChain(call.self)) :
                    Connected(GatewayChain(call.self)[i]) )
    /\ [](\A s \in Sessions : Cardinality(ConnectsOf(s)) <= 1)
    /\ [](\A s \in Sessions : Cardinality(OpenFrames(s)) <= 1)

\* What holds of an open() that returned while no transport dropped: the
\* sessions it connected are the first k of the chain, each connected once
\* and innermost first, all of them are connected, and so is the session
\* after them, where the recursion stopped because it was connected already
ChainOpened ==
    LET ch == GatewayChain(call.self)
        k == Cardinality(Reached)
    IN  /\ k <= Len(ch)
        /\ Reached = {ch[i] : i \in 1..k}
        /\ \A i \in 1..k : Connected(ch[i]) /\ Cardinality(ConnectsOf(ch[i])) = 1
        /\ k < Len(ch) => Connected(ch[k + 1])
        /\ \A i, j \in 1..k :
                i < j => \A p \in ConnectsOf(ch[i]), q \in ConnectsOf(ch[j]) : q < p

\* C23, amended: open() always terminates, by returning or by raising; it
\* never has more than one open attempt outstanding per session nor
\* connects a session twice; and when it returns, no transport having
\* dropped meanwhile, it has connected the chain down to the first session
\* that was connected already, and no further.
C23_ChainOpenTerminates ==
    /\ (outcome = "running") ~> (outcome \in {"returned", "raised"})
    /\ [](\A s \in Sessions : Cardinality(ConnectsOf(s)) <= 1)
    /\ [](\A s \in Sessions : Cardinality(OpenFrames(s)) <= 1)
    /\ []((outcome = "returned" /\ ~disturbed) => ChainOpened)

C23_Witness ==
    /\ gateway = ChainConfig /\ call.self = "A" /\ outcome = "returned"
    /\ ~disturbed /\ ~call.fresh
    /\ Reached = {"A", "B"} /\ connects["C"] = 1

----------------------------------------------------------------------------
(* Properties of the context manager *)

\* C22: when the block of `with cxn:` has exited, normally or by raising,
\* close() has been called on the Connection before control left the with
\* statement, and an exception the block raised was not suppressed.
C22_WithClosesOnExit ==
    with_pc = "after" =>
        /\ call.op = "close" /\ call.self = "A"
        /\ ~(transport["A"] # 0 /\ active["A"])
        /\ call.connected => closed["A"] >= 1
        /\ with_raised = with_exc

C22_Witness ==
    /\ with_pc = "after"
    /\ with_exc = "BlockError" /\ with_raised = "BlockError"
    /\ call.op = "close" /\ call.connected /\ closed["A"] = 1

----------------------------------------------------------------------------
(* Properties of the port defaults *)

\* C21: forward_local uses remote_port = local_port exactly when
\* remote_port is not given, forward_remote uses local_port = remote_port
\* exactly when local_port is not given, and a port that is given goes
\* unchanged to the manager or to the forwarding request.
C21_PortDefaults ==
    /\ fr_pc \notin {"off", "call"} =>
            /\ fr_local_port = IF fr_args.local_port.given
                               THEN fr_args.local_port
                               ELSE Number(fr_args.remote_port)
            /\ \A i \in 1..Len(fr_requests) :
                    fr_requests[i] = <<fr_args.remote_host, fr_args.remote_port>>
    /\ fl_pc \notin {"off", "call"} =>
            fl_remote_port = IF fl_args.remote_port.given
                             THEN fl_args.remote_port
                             ELSE Number(fl_args.local_port)

\* C21, amended: the default replaces a port that is None or 0; any other
\* port given goes through unchanged.
C21_PortDefaultsWhenFalsy ==
    /\ fr_pc \notin {"off", "call"} =>
            /\ fr_local_port =
                    IF fr_args.local_port \in {NoneNumber, Number(0)}
                    THEN Number(fr_args.remote_port)
                    ELSE fr_args.local_port
            /\ \A i \in 1..Len(fr_requests) :
                    fr_requests[i] = <<fr_args.remote_host, fr_args.remote_port>>
    /\ fl_pc \notin {"off", "call"} =>
            fl_remote_port =
                    IF fl_args.remote_port \in {NoneNumber, Number(0)}
                    THEN Number(fl_args.local_port)
                    ELSE fl_args.remote_port

C21_Witness ==
    /\ fr_pc = "yield" /\ fr_args.local_port = Number(0)
    /\ fr_local_port = Number(8080) /\ Len(fr_requests) = 1
    /\ fl_pc = "yield" /\ fl_args.remote_port = Number(6543)
    /\ fl_remote_port = Number(6543)

\* The Tunnels in the shared list `tunnels`
FRTracked == {fr_tunnels[i] : i \in 1..Len(fr_tunnels)}

\* C24: on scope exit cancel_port_forward is invoked only after every
\* tracked Tunnel has had stop requested and has been joined, and each
\* Tunnel's stop request precedes its own join.
C24_CancelAfterStopAndJoin ==
    /\ [][ Len(fr_cancels') > Len(fr_cancels) =>
             \A n \in FRTracked : fr_tunnel[n].finished /\ fr_tunnel[n].joined ]_vars
    /\ [](\A n \in 1..MaxCallbacks : fr_tunnel[n].joined => fr_tunnel[n].finished)

----------------------------------------------------------------------------
(* Properties of forward_local *)

\* Every failure of the scope's workers: the manager's accept loop and the
\* Tunnels' exception slots
FLFailures ==
    (IF mg_own # NoExc THEN {mg_own.name} ELSE {})
        \cup {TunnelError(n).name : n \in {m \in 1..MaxAccepts : mg_tunnel[m].exc}}

C8_UserErrorTakesPrecedence ==
    (fl_pc = "done" /\ fl_exc # NoExc /\ mg_slot # NoWrapper) => fl_raised = fl_exc

\* C9: however the block exits, finished is set and then the manager is
\* joined before control leaves the scope; nothing is raised to the caller
\* before the join has returned.
C9_TeardownOnEveryExit ==
    /\ fl_pc = "done" => fl_finished /\ fl_joined /\ mg_pc = "done"
    /\ fl_joined => fl_finished
    /\ fl_raised # NoExc => fl_joined
    /\ fl_pc # "done" => fl_raised = NoExc

C9_Witness ==
    /\ fl_pc = "done" /\ fl_exc = Error("UserError", 0) /\ fl_raised = fl_exc
    /\ fl_finished /\ fl_joined

\* C25: whenever the manager reports a failure at the exit of a
\* forward_local scope, a ThreadException is raised: the manager's own
\* ThreadException, the very object, when that is what it recorded, and
\* otherwise a new ThreadException holding exactly the one wrapper.
C25_ManagerFailureAsThreadException ==
    (fl_pc = "done" /\ mg_slot # NoWrapper) =>
        /\ fl_raised.type = "ThreadException"
        /\ IF mg_slot.type = "ThreadException"
           THEN fl_raised = mg_slot.value
           ELSE /\ fl_raised.by = "forward_local"
                /\ fl_raised.causes = {mg_slot.value.name}

C25_Witness ==
    /\ fl_pc = "done" /\ mg_slot.type = "ThreadException"
    /\ fl_raised = mg_slot.value /\ fl_raised.by = "manager"
    /\ fl_raised.causes = {<<"TunnelError", 2>>}

\* C26: if request_port_forward raises, the caller's block is never run,
\* cancel_port_forward is still called once with the same (address, port),
\* and the registration error is what reaches the caller unless the cancel
\* call raised.
C26_FailedRequestStillCancels ==
    fr_registered = "failed" =>
        /\ fr_pc \in {"loop", "cancel", "done"}
        /\ fr_exc # "UserError"
        /\ fr_tunnels = <<>>
        /\ fr_pc # "done" => fr_cancels = <<>> /\ fr_exc = "RequestError"
        /\ fr_pc = "done" =>
              /\ fr_cancels = fr_requests
              /\ Len(fr_cancels) = 1
              /\ fr_raised \in {"RequestError", "CancelError"}

C26_Witness ==
    /\ fr_pc = "done" /\ fr_registered = "failed"
    /\ fr_raised = "RequestError" /\ fr_cancels = <<FRRequestArgs>>

\* C27: if the caller's block raises, then by the time forward_remote lets
\* an exception out every tracked Tunnel has had stop requested and has
\* been joined, the forwarding has been cancelled, and the exception let
\* out is the block's.
C27_TeardownThenUserError ==
    [][(fr_pc = "cancel" /\ fr_exc = "UserError" /\ fr_pc' = "done") =>
          /\ \A n \in FRTracked' : fr_tunnel'[n].finished /\ fr_tunnel'[n].joined
          /\ Len(fr_cancels') = 1
          /\ fr_raised' = "UserError"]_vars

\* The part of C27 about the exception alone (C27 without the Tunnels)
FRUserErrorPropagates ==
    [][(fr_pc = "cancel" /\ fr_exc = "UserError" /\ fr_pc' = "done") =>
          fr_raised' = "UserError"]_vars

\* The part of C27 about the Tunnels alone (C27 without the exception)
FRUserErrorAfterTeardown ==
    [][(fr_pc = "cancel" /\ fr_exc = "UserError" /\ fr_pc' = "done") =>
          /\ \A n \in FRTracked' : fr_tunnel'[n].finished /\ fr_tunnel'[n].joined
          /\ Len(fr_cancels') = 1]_vars

============================================================================
